---- MODULE Spec2Model ----
(***************************************************************************)
(* The asynchronous face-redaction pipeline: the image_processing job      *)
(* records, the GridFS input and output buckets, the face_detection_results*)
(* log, and the polling worker (FaceRedactionClient) that takes pending    *)
(* records to completed or failed.                                         *)
(*                                                                         *)
(* One call of process_gridfs_images is split at its store operations      *)
(* (find, upload_from_stream, update_one, insert_one): between two of them *)
(* a worker touches only its own fields and reads immutable blobs, so      *)
(* these are the points where another worker process can interleave.       *)
(***************************************************************************)
EXTENDS Integers, Sequences, FiniteSets, TLC

\* ---------------------------------------------------------------- bounds
MaxJobs == 2
MaxFaults == 2
\* the size of the images redact_faces is applied to, pixel by pixel
ImageWidth == 12
ImageHeight == 14

\* ------------------------------------------------------- program constants
\* confidence is modelled in hundredths: 0.9 is 90
Threshold == 90
\* a falsy / missing ObjectId (record.get("input_file_id") is None)
NoId == 0
\* Python's None for an image (cv2.imdecode / cv2.imread returned None)
NoImage == 0
\* the image loaded from REDACTION_IMAGE at construction
EnvImage == -1

NoFileMsg == "no file in gridfs collection"
DecodeMsg == "Failed to decode image data"
EncodeMsg == "Failed to encode redacted image"
DetectorMsg == "model unavailable"
StoreMsg == "store unavailable"
NoError == ""

Workers == {1, 2}
Jobs == 1..MaxJobs

\* ------------------------------------------------------------------ state
VARIABLES
    processing_collection,  \* db.image_processing: job id -> record
    input_bucket,           \* GridFS input_images: blob id -> blob
    output_bucket,          \* GridFS output_images: sequence of blobs, id = index
    collection,             \* db.face_detection_results: sequence of records
    redaction_image,        \* per worker: self.redaction_image
    redaction_method,       \* per worker: self.redaction_method
    configured,             \* per worker: the settings __init__ left (never changes)
    pc,                     \* per worker: position in process_gridfs_images
    pending_records,        \* per worker: the cursor's remaining records (head = current)
    local,                  \* per worker: the locals of the current loop iteration
    fetched,                \* history, per worker: ids returned by this call's find
    visited,                \* history, per worker: ids whose iteration ended in this call
    raised,                 \* history, per worker: <<id, message>> of each exception
                            \*   raised by an iteration of this call
    escaped,                \* history, per worker: an exception left the for loop in this call
    swallowed,              \* history, per worker: store_result swallowed a failure in this call
    completions,            \* history, per job: number of completed transitions written
    faults,                 \* history: store faults injected so far
    render,                 \* one call of redact_faces and the encoding that follows,
                            \*   pixel by pixel (used by SpecRender only)
    response,               \* the front end's last HTTP response
    flask_app               \* the front end's process: how often it was started again

vars == <<processing_collection, input_bucket, output_bucket, collection,
          redaction_image, redaction_method, configured, pc, pending_records,
          local, fetched, visited, raised, escaped, swallowed, completions, faults,
          render, response, flask_app>>

store == <<processing_collection, input_bucket, output_bucket, collection>>
history == <<fetched, visited, raised, escaped, swallowed, completions, faults>>

\* ---------------------------------------------------------------- helpers
InputId(j) == j
CoverId(j) == MaxJobs + j

\* What a job and its blobs look like when the worker first sees it.
JobConfigs ==
    {[input |-> i, cover |-> "no"] : i \in {"none", "missing", "garbage"}}
    \cup {[input |-> "image", cover |-> c] : c \in {"no", "missing", "garbage", "image"}}

\* The record the front end (or a test harness) inserts: status pending, no
\* output_file_id, no error.
NewRecord(j, cfg) ==
    [_id |-> j,
     input_file_id |-> IF cfg.input = "none" THEN NoId ELSE InputId(j),
     filename |-> <<ToString(j), ".", "j", "p", "g">>,
     status |-> "pending",
     has_custom_cover |-> cfg.cover # "no",
     cover_image_id |-> IF cfg.cover = "no" THEN NoId ELSE CoverId(j),
     output_file_id |-> NoId,
     num_faces |-> -1,
     confidence_scores |-> <<>>,
     error |-> NoError,
     completed_at |-> FALSE]

\* Mutant of imdecode: undecodable bytes are taken for an image.
imdecode_Always(id, blob) == id

\* cv2.imdecode on a blob's bytes: the decoded image (named by the blob's id),
\* or None when the bytes are not an image.
imdecode(id, blob) == IF blob.kind = "image" THEN id ELSE NoImage

\* self.redaction_image / self.redaction_method as __init__ leaves them.
InitRedaction(path) ==
    IF path = "good"
    THEN [image |-> EnvImage, method |-> "image"]
    ELSE [image |-> NoImage, method |-> "rectangle"]

RedactionPaths == {"none", "bad", "good"}

\* What the detector can do with an image: raise, or return a list of faces
\* (none, one above the gate, one above and one below it in either order).
Face(c) == [confidence |-> c]
FaceLists ==
    {<<>>, <<Face(99)>>, <<Face(99), Face(50)>>, <<Face(50), Face(99)>>}
DetectorOutcomes ==
    {[raises |-> TRUE, faces |-> <<>>]}
    \cup {[raises |-> FALSE, faces |-> f] : f \in FaceLists}

NoLocal ==
    [custom_redaction_image |-> NoImage,
     orig_redaction_image |-> NoImage,
     orig_redaction_method |-> "rectangle",
     num_faces |-> 0,
     confidence_scores |-> <<>>,
     redacted_bytes |-> [format |-> "", image |-> NoImage, cover |-> NoImage,
                         redacted |-> 0],
     output_file_id |-> NoId,
     exc |-> NoError]

\* The front end has answered no request.
NoResponse ==
    [route |-> "", request |-> <<>>, code |-> 0, error |-> "", file_id |-> NoId,
     of |-> "", status |-> "", page |-> "", num_faces |-> 0, mimetype |-> "",
     body |-> [format |-> "", image |-> NoImage, cover |-> NoImage,
               redacted |-> 0]]

\* The front end is up: create_app has returned once, its routes are served.
Serving == [started |-> 0]

\* The renderer's state while the pipeline is what is explored.
NoResult == [raises |-> FALSE, image |-> 0, pixels |-> <<>>, num_faces |-> 0]
NoEncoded == [raises |-> FALSE, format |-> "", output_filename |-> <<>>]
NoRender ==
    [stage |-> "none", heap |-> <<>>, original |-> <<>>, faces |-> <<>>,
     self_image |-> [channels |-> 0], self_method |-> "rectangle",
     result |-> NoResult, again |-> NoResult, filename |-> <<>>,
     encoded |-> NoEncoded]

\* --------------------------------------------------- the output's encoding
\* File names are sequences of characters; "_redacted" is the text the worker
\* inserts.
NoFilename == <<"?">>
\* Mutant of lower: the case is kept.
lower_Keep(s) == s

\* str.lower()
lower(s) ==
    [i \in 1..Len(s) |->
        CASE s[i] = "J" -> "j"
          [] s[i] = "P" -> "p"
          [] s[i] = "G" -> "g"
          [] s[i] = "N" -> "n"
          [] s[i] = "E" -> "e"
          [] OTHER -> s[i]]

\* str.endswith(suffix)
endswith(s, suffix) ==
    /\ Len(suffix) <= Len(s)
    /\ SubSeq(s, Len(s) - Len(suffix) + 1, Len(s)) = suffix

\* record.get("filename", default)
get_filename(filename, default) ==
    IF filename = NoFilename THEN default ELSE filename

\* os.path.splitext: the extension starts at the last dot, unless only dots
\* come before it.
splitext(s) ==
    LET dots == {i \in 1..Len(s) : s[i] = "."}
        last == CHOOSE i \in dots : \A k \in dots : k <= i
    IN IF dots = {} \/ \A i \in 1..(last - 1) : s[i] = "."
       THEN [name |-> s, ext |-> <<>>]
       ELSE [name |-> SubSeq(s, 1, last - 1), ext |-> SubSeq(s, last, Len(s))]

\* Lines 308-320: the format handed to imencode and the output blob's name.
EncodeAs(filename) ==
    LET is_jpg == \/ endswith(lower(get_filename(filename, <<>>)), <<".", "j", "p", "g">>)
                  \/ endswith(lower(get_filename(filename, <<>>)),
                              <<".", "j", "p", "e", "g">>)
        parts == splitext(get_filename(filename, <<"unknown">>))
    IN [format |-> IF is_jpg THEN "jpeg" ELSE "png",
        output_filename |-> parts.name \o <<"_redacted">> \o parts.ext]

\* ------------------------------------------------------- pure functions
\* redact_faces: the count of faces that pass the gate and the redacted image,
\* described by the source image, the fill that was applied and how many boxes
\* were filled.
redact_faces(image, faces, self_image, self_method) ==
    LET counted == SelectSeq(faces, LAMBDA f : ~(f.confidence < Threshold))
        overlay == self_method = "image" /\ self_image # NoImage
    IN [num_faces |-> Len(counted),
        image |-> [image |-> image,
                   cover |-> IF overlay THEN self_image ELSE NoImage,
                   redacted |-> Len(counted)]]

\* custom_redaction_image: the job's decoded cover, or None when the job has
\* none, the download raised (caught and logged) or the bytes do not decode.
LoadCover(r, bucket) ==
    IF r.has_custom_cover /\ r.cover_image_id # NoId
    THEN IF r.cover_image_id \in DOMAIN bucket
         THEN imdecode(r.cover_image_id, bucket[r.cover_image_id])
         ELSE NoImage
    ELSE NoImage

\* [face["confidence"] for face in faces] if faces else []
ConfidenceScores(faces) == [i \in 1..Len(faces) |-> faces[i].confidence]

\* One loop iteration from the download of the input to imencode, for record r
\* by a worker whose settings are self_image / self_method, when the detector
\* does det and imencode reports enc_ok. Yields the worker's settings and
\* locals afterwards; exc is the message of the exception raised, if any.
Prepare(r, bucket, self_image, self_method, det, enc_ok) ==
    LET keep(msg) == [image |-> self_image, method |-> self_method,
                      local |-> [NoLocal EXCEPT !.exc = msg]]
    IN IF r.input_file_id \notin DOMAIN bucket THEN keep(NoFileMsg)
       ELSE LET img == imdecode(r.input_file_id, bucket[r.input_file_id])
            IN IF img = NoImage THEN keep(DecodeMsg)
               ELSE
               LET custom == LoadCover(r, bucket)
                   now_image == IF custom # NoImage THEN custom ELSE self_image
                   now_method == IF custom # NoImage THEN "image" ELSE self_method
                   frame == [NoLocal EXCEPT !.custom_redaction_image = custom,
                                            !.orig_redaction_image = self_image,
                                            !.orig_redaction_method = self_method]
                   out == redact_faces(img, det.faces, now_image, now_method)
               IN [image |-> now_image, method |-> now_method,
                   local |->
                     IF det.raises THEN [frame EXCEPT !.exc = DetectorMsg]
                     ELSE IF ~enc_ok
                     THEN [frame EXCEPT !.exc = EncodeMsg]
                     ELSE [frame EXCEPT
                             !.num_faces = out.num_faces,
                             !.confidence_scores = ConfidenceScores(det.faces),
                             !.redacted_bytes =
                                 [format |-> EncodeAs(r.filename).format,
                                  image |-> out.image.image,
                                  cover |-> out.image.cover,
                                  redacted |-> out.image.redacted]]]

\* processing_collection.find({"status": "pending"}): the pending records, in
\* insertion order.
RECURSIVE FindFrom(_, _)
FindFrom(coll, j) ==
    IF j > MaxJobs THEN <<>>
    ELSE IF j \in DOMAIN coll /\ coll[j].status = "pending"
         THEN <<coll[j]>> \o FindFrom(coll, j + 1)
         ELSE FindFrom(coll, j + 1)

\* Mutant of find_pending: find() without the status filter.
find_pending_Any(coll) == [j \in 1..MaxJobs |-> coll[j]]

find_pending(coll) == FindFrom(coll, 1)

Ids(records) == {records[i]._id : i \in 1..Len(records)}

\* Mutant of CompletedFields: the completed transition leaves output_file_id out.
CompletedFields_NoOutput(l) ==
    [status |-> "completed",
     num_faces |-> l.num_faces,
     confidence_scores |-> l.confidence_scores,
     completed_at |-> TRUE]

\* Mutant of FailedFields: the except branch leaves the job pending.
FailedFields_Pending(l) ==
    [status |-> "pending",
     error |-> l.exc,
     completed_at |-> TRUE]

\* Mutant of FailedFields: the failed transition records a fixed text instead
\* of str(e).
FailedFields_Generic(l) ==
    [status |-> "failed",
     error |-> "processing failed",
     completed_at |-> TRUE]

\* The $set document of the completed transition.
CompletedFields(l) ==
    [status |-> "completed",
     output_file_id |-> l.output_file_id,
     num_faces |-> l.num_faces,
     confidence_scores |-> l.confidence_scores,
     completed_at |-> TRUE]

\* The $set document of the failed transition.
FailedFields(l) ==
    [status |-> "failed",
     error |-> l.exc,
     completed_at |-> TRUE]

\* update_one({"_id": id}, {"$set": fields}): the document whose _id is id, if
\* there is one, gets the fields; nothing else of it is looked at or changed.
update_one(coll, id, fields) ==
    IF id \in DOMAIN coll
    THEN [coll EXCEPT ![id] =
            [f \in DOMAIN @ |-> IF f \in DOMAIN fields THEN fields[f] ELSE @[f]]]
    ELSE coll

\* The blob upload_from_stream adds to the output bucket.
OutputBlob(r, l) ==
    [filename |-> EncodeAs(r.filename).output_filename,
     bytes |-> l.redacted_bytes,
     input_file_id |-> r.input_file_id,
     num_faces |-> l.num_faces]

\* Mutant of ResultRecord: the log counts every detection, not the faces that
\* were redacted.
ResultRecord_Detected(r, l) ==
    [filename |-> r.filename,
     num_faces |-> Len(l.confidence_scores),
     confidence_scores |-> l.confidence_scores]

\* The document store_result inserts.
ResultRecord(r, l) ==
    [filename |-> r.filename,
     num_faces |-> l.num_faces,
     confidence_scores |-> l.confidence_scores]

\* ------------------------------------------------------------------ Init
\* The blobs of the input bucket for a choice of job configurations.
InitialBlobs(cfg) ==
    LET ids == {InputId(j) : j \in {k \in Jobs : cfg[k].input \in {"garbage", "image"}}}
               \cup {CoverId(j) : j \in {k \in Jobs : cfg[k].cover \in {"garbage", "image"}}}
    IN [id \in ids |->
          [kind |-> IF id <= MaxJobs THEN cfg[id].input ELSE cfg[id - MaxJobs].cover]]

\* Every worker is constructed from the same REDACTION_IMAGE; the store holds
\* MaxJobs pending records, each with its blobs present, undecodable or missing.
Init ==
    \E cfg \in [Jobs -> JobConfigs], path \in RedactionPaths :
        /\ processing_collection = [j \in Jobs |-> NewRecord(j, cfg[j])]
        /\ input_bucket = InitialBlobs(cfg)
        /\ output_bucket = <<>>
        /\ collection = <<>>
        /\ redaction_image = [w \in Workers |-> InitRedaction(path).image]
        /\ redaction_method = [w \in Workers |-> InitRedaction(path).method]
        /\ configured = [w \in Workers |-> InitRedaction(path)]
        /\ pc = [w \in Workers |-> "idle"]
        /\ pending_records = [w \in Workers |-> <<>>]
        /\ local = [w \in Workers |-> NoLocal]
        /\ fetched = [w \in Workers |-> {}]
        /\ visited = [w \in Workers |-> {}]
        /\ raised = [w \in Workers |-> {}]
        /\ escaped = [w \in Workers |-> FALSE]
        /\ swallowed = [w \in Workers |-> FALSE]
        /\ completions = [j \in Jobs |-> 0]
        /\ faults = 0
        /\ render = NoRender
        /\ response = NoResponse
        /\ flask_app = Serving

\* --------------------------------------------------------------- actions
record(w) == Head(pending_records[w])

\* Mutant of NextRecord: the iteration's end leaves the loop (a break).
NextRecord_Break(w) ==
    /\ visited' = [visited EXCEPT ![w] = @ \cup {record(w)._id}]
    /\ pending_records' = [pending_records EXCEPT ![w] = <<>>]
    /\ local' = [local EXCEPT ![w] = NoLocal]
    /\ pc' = [pc EXCEPT ![w] = "loop"]

\* The for loop moves to the next record of the cursor.
NextRecord(w) ==
    /\ visited' = [visited EXCEPT ![w] = @ \cup {record(w)._id}]
    /\ pending_records' = [pending_records EXCEPT ![w] = Tail(@)]
    /\ local' = [local EXCEPT ![w] = NoLocal]
    /\ pc' = [pc EXCEPT ![w] = "loop"]

\* run() calls process_gridfs_images; the cursor of find() is read.
Find(w) ==
    /\ pc[w] = "idle"
    /\ pending_records' =
           [pending_records EXCEPT ![w] = find_pending(processing_collection)]
    /\ pc' = [pc EXCEPT ![w] = "loop"]
    /\ fetched' = [fetched EXCEPT ![w] = Ids(find_pending(processing_collection))]
    /\ visited' = [visited EXCEPT ![w] = {}]
    /\ raised' = [raised EXCEPT ![w] = {}]
    /\ escaped' = [escaped EXCEPT ![w] = FALSE]
    /\ swallowed' = [swallowed EXCEPT ![w] = FALSE]
    /\ UNCHANGED <<store, redaction_image, redaction_method, configured, render, response, flask_app, local,
                   completions, faults>>

\* Mutant of Skip: a record without input_file_id is written failed.
Skip_Failed(w) ==
    /\ pc[w] = "loop"
    /\ pending_records[w] # <<>>
    /\ record(w).input_file_id = NoId
    /\ processing_collection' =
           update_one(processing_collection, record(w)._id,
                      FailedFields([NoLocal EXCEPT !.exc = NoFileMsg]))
    /\ pending_records' = [pending_records EXCEPT ![w] = Tail(@)]
    /\ UNCHANGED <<input_bucket, output_bucket, collection, redaction_image,
                   redaction_method, configured, render, response, flask_app, pc, local,
                   history>>

\* if not input_file_id: continue
Skip(w) ==
    /\ pc[w] = "loop"
    /\ pending_records[w] # <<>>
    /\ record(w).input_file_id = NoId
    /\ pending_records' = [pending_records EXCEPT ![w] = Tail(@)]
    /\ UNCHANGED <<store, redaction_image, redaction_method, configured, render, response, flask_app, pc, local,
                   history>>

\* Download and decode the input, load the cover, detect, redact, encode.
Process(w, outcomes) ==
    /\ pc[w] = "loop"
    /\ pending_records[w] # <<>>
    /\ record(w).input_file_id # NoId
    /\ \E det \in outcomes, enc_ok \in BOOLEAN :
         LET o == Prepare(record(w), input_bucket, redaction_image[w],
                          redaction_method[w], det, enc_ok)
         IN /\ redaction_image' = [redaction_image EXCEPT ![w] = o.image]
            /\ redaction_method' = [redaction_method EXCEPT ![w] = o.method]
            /\ local' = [local EXCEPT ![w] = o.local]
            /\ pc' = [pc EXCEPT ![w] =
                        IF o.local.exc # NoError THEN "except" ELSE "upload"]
            /\ raised' = [raised EXCEPT ![w] =
                        IF o.local.exc # NoError
                        THEN @ \cup {<<record(w)._id, o.local.exc>>} ELSE @]
    /\ UNCHANGED <<store, configured, render, response, flask_app, pending_records, fetched, visited, escaped,
                   swallowed, completions, faults>>

\* output_bucket.upload_from_stream(...)
Upload(w) ==
    /\ pc[w] = "upload"
    /\ output_bucket' = Append(output_bucket, OutputBlob(record(w), local[w]))
    /\ local' = [local EXCEPT ![w].output_file_id = Len(output_bucket) + 1]
    /\ pc' = [pc EXCEPT ![w] = "update"]
    /\ UNCHANGED <<processing_collection, input_bucket, collection, redaction_image,
                   redaction_method, configured, render, response, flask_app, pending_records, history>>

\* processing_collection.update_one({"_id": ...}, {"$set": {"status": "completed", ...}})
Complete(w) ==
    /\ pc[w] = "update"
    /\ processing_collection' =
           update_one(processing_collection, record(w)._id,
                      CompletedFields(local[w]))
    /\ completions' = [completions EXCEPT ![record(w)._id] = @ + 1]
    /\ pc' = [pc EXCEPT ![w] = "store"]
    /\ UNCHANGED <<input_bucket, output_bucket, collection, redaction_image,
                   redaction_method, configured, render, response, flask_app, pending_records, local, fetched,
                   visited, raised, escaped, swallowed, faults>>

\* The settings after "Restore original redaction settings if changed".
Restored(w) ==
    IF local[w].custom_redaction_image # NoImage
    THEN [image |-> local[w].orig_redaction_image,
          method |-> local[w].orig_redaction_method]
    ELSE [image |-> redaction_image[w], method |-> redaction_method[w]]

\* store_result(...), then the restore of the redaction settings.
StoreResult(w) ==
    /\ pc[w] = "store"
    /\ collection' = Append(collection, ResultRecord(record(w), local[w]))
    /\ redaction_image' = [redaction_image EXCEPT ![w] = Restored(w).image]
    /\ redaction_method' = [redaction_method EXCEPT ![w] = Restored(w).method]
    /\ NextRecord(w)
    /\ UNCHANGED <<processing_collection, input_bucket, output_bucket, configured, render, response, flask_app,
                   fetched, raised, escaped, swallowed, completions, faults>>

\* except Exception as e: update_one(..., {"$set": {"status": "failed", ...}})
Fail(w) ==
    /\ pc[w] = "except"
    /\ processing_collection' =
           update_one(processing_collection, record(w)._id,
                      FailedFields(local[w]))
    /\ NextRecord(w)
    /\ UNCHANGED <<input_bucket, output_bucket, collection, redaction_image,
                   redaction_method, configured, render, response, flask_app, fetched, raised, escaped, swallowed,
                   completions, faults>>

\* The cursor is exhausted: process_gridfs_images returns, run() sleeps.
Return(w) ==
    /\ pc[w] = "loop"
    /\ pending_records[w] = <<>>
    /\ pc' = [pc EXCEPT ![w] = "idle"]
    /\ UNCHANGED <<store, redaction_image, redaction_method, configured, render, response, flask_app,
                   pending_records, local, history>>

\* One step of worker w, the detector's behaviour drawn from outcomes.
Step(w, outcomes) ==
    \/ Find(w)
    \/ Skip(w)
    \/ Process(w, outcomes)
    \/ Upload(w)
    \/ Complete(w)
    \/ StoreResult(w)
    \/ Fail(w)
    \/ Return(w)

\* The reference deployment: one worker process, a store that answers.
Next == Step(1, DetectorOutcomes)

Spec == Init /\ [][Next]_vars

\* Two worker processes against the same store. What is explored here is the
\* interleaving of their store operations, so the detector either raises or
\* returns the faces of the spec's scenario.
RaceOutcomes ==
    {[raises |-> TRUE, faces |-> <<>>],
     [raises |-> FALSE, faces |-> <<Face(99), Face(50)>>]}

NextWorkers == \E w \in Workers : Step(w, RaceOutcomes)

SpecWorkers == Init /\ [][NextWorkers]_vars

\* ------------------------------------------------------------ store faults
\* A store operation raises (connection lost, server error): at most
\* MaxFaults times in a behaviour.
Fault == /\ faults < MaxFaults
         /\ faults' = faults + 1

\* The exception is caught by the iteration's except clause.
Caught(w, msg) ==
    /\ local' = [local EXCEPT ![w].exc = msg]
    /\ raised' = [raised EXCEPT ![w] = @ \cup {<<record(w)._id, msg>>}]
    /\ pc' = [pc EXCEPT ![w] = "except"]

\* Mutant of FindRaises: the exception of find() is not caught; it leaves
\* run() and main() exits.
FindRaises_Uncaught(w) ==
    /\ pc[w] = "idle"
    /\ Fault
    /\ pc' = [pc EXCEPT ![w] = "exited"]
    /\ UNCHANGED <<store, redaction_image, redaction_method, configured, render, response, flask_app,
                   pending_records, local, fetched, visited, raised, escaped,
                   swallowed, completions>>

\* Reading the cursor raises: the outer except clause logs, the call returns.
FindRaises(w) ==
    /\ pc[w] = "idle"
    /\ Fault
    /\ fetched' = [fetched EXCEPT ![w] = {}]
    /\ visited' = [visited EXCEPT ![w] = {}]
    /\ raised' = [raised EXCEPT ![w] = {}]
    /\ escaped' = [escaped EXCEPT ![w] = TRUE]
    /\ swallowed' = [swallowed EXCEPT ![w] = FALSE]
    /\ UNCHANGED <<store, redaction_image, redaction_method, configured, render, response, flask_app, pc,
                   pending_records, local, completions>>

UploadRaises(w) ==
    /\ pc[w] = "upload"
    /\ Fault
    /\ Caught(w, StoreMsg)
    /\ UNCHANGED <<store, redaction_image, redaction_method, configured, render, response, flask_app,
                   pending_records, fetched, visited, escaped, swallowed, completions>>

CompleteRaises(w) ==
    /\ pc[w] = "update"
    /\ Fault
    /\ Caught(w, StoreMsg)
    /\ UNCHANGED <<store, redaction_image, redaction_method, configured, render, response, flask_app,
                   pending_records, fetched, visited, escaped, swallowed, completions>>

\* insert_one raises inside store_result, which logs and returns.
StoreResultRaises(w) ==
    /\ pc[w] = "store"
    /\ Fault
    /\ swallowed' = [swallowed EXCEPT ![w] = TRUE]
    /\ redaction_image' = [redaction_image EXCEPT ![w] = Restored(w).image]
    /\ redaction_method' = [redaction_method EXCEPT ![w] = Restored(w).method]
    /\ NextRecord(w)
    /\ UNCHANGED <<store, configured, render, response, flask_app, fetched, raised, escaped, completions>>

\* The update_one of the except clause raises: the exception leaves the for
\* loop, the outer except clause logs and the call returns.
FailRaises(w) ==
    /\ pc[w] = "except"
    /\ Fault
    /\ escaped' = [escaped EXCEPT ![w] = TRUE]
    /\ pending_records' = [pending_records EXCEPT ![w] = <<>>]
    /\ local' = [local EXCEPT ![w] = NoLocal]
    /\ pc' = [pc EXCEPT ![w] = "idle"]
    /\ UNCHANGED <<store, redaction_image, redaction_method, configured, render, response, flask_app, fetched,
                   visited, raised, swallowed, completions>>

StepFaults(w) ==
    \/ FindRaises(w)
    \/ UploadRaises(w)
    \/ CompleteRaises(w)
    \/ StoreResultRaises(w)
    \/ FailRaises(w)

\* One worker process against a store whose operations may raise.
NextFaults == Step(1, RaceOutcomes) \/ StepFaults(1)

SpecFaults == Init /\ [][NextFaults]_vars

\* ------------------------------------------------------------- a crash
\* The worker's process dies (killed, out of memory, power) wherever it is;
\* nothing of the store is written by that. It is "crashed" when it died
\* inside an iteration before the iteration's write to the job record, and
\* "exited" when it died after that write or between two calls.
Crash(w) ==
    /\ pc[w] \notin {"crashed", "exited"}
    /\ pc' = [pc EXCEPT ![w] = IF @ \in {"loop", "upload", "update", "except"}
                                THEN "crashed" ELSE "exited"]
    /\ UNCHANGED <<store, redaction_image, redaction_method, configured, render, response,
                   flask_app, pending_records, local, history>>

\* One worker process that may crash, against a store whose operations may raise.
NextCrash == Step(1, RaceOutcomes) \/ StepFaults(1) \/ Crash(1)

SpecCrash == Init /\ [][NextCrash]_vars

\* --------------------------------------------------------- main() and run()
\* Before main() has constructed the client nothing of the worker exists; the
\* store holds the pending records, REDACTION_IMAGE is as configured.
InitRun ==
    \E cfg \in [Jobs -> JobConfigs], path \in RedactionPaths :
        /\ processing_collection = [j \in Jobs |-> NewRecord(j, cfg[j])]
        /\ input_bucket = InitialBlobs(cfg)
        /\ output_bucket = <<>>
        /\ collection = <<>>
        /\ redaction_image = [w \in Workers |-> NoImage]
        /\ redaction_method = [w \in Workers |-> "rectangle"]
        /\ configured = [w \in Workers |-> InitRedaction(path)]
        /\ pc = [w \in Workers |-> "start"]
        /\ pending_records = [w \in Workers |-> <<>>]
        /\ local = [w \in Workers |-> NoLocal]
        /\ fetched = [w \in Workers |-> {}]
        /\ visited = [w \in Workers |-> {}]
        /\ raised = [w \in Workers |-> {}]
        /\ escaped = [w \in Workers |-> FALSE]
        /\ swallowed = [w \in Workers |-> FALSE]
        /\ completions = [j \in Jobs |-> 0]
        /\ faults = 0
        /\ render = NoRender
        /\ response = NoResponse
        /\ flask_app = Serving

\* FaceRedactionClient(...) succeeds: the ping was answered, the redaction
\* image is loaded; main() calls run().
Startup(w) ==
    /\ pc[w] = "start"
    /\ pc' = [pc EXCEPT ![w] = "idle"]
    /\ redaction_image' = [redaction_image EXCEPT ![w] = configured[w].image]
    /\ redaction_method' = [redaction_method EXCEPT ![w] = configured[w].method]
    /\ UNCHANGED <<store, configured, render, response, flask_app, pending_records, local, history>>

\* The ping raises ConnectionFailure / ServerSelectionTimeoutError: __init__
\* raises it again, main() logs and calls sys.exit(1).
StartupFails(w) ==
    /\ pc[w] = "start"
    /\ pc' = [pc EXCEPT ![w] = "exited"]
    /\ UNCHANGED <<store, redaction_image, redaction_method, configured, render, response, flask_app,
                   pending_records, local, history>>

\* One worker process from main() on, against a store whose operations may
\* raise.
NextRun == Startup(1) \/ StartupFails(1) \/ Step(1, RaceOutcomes) \/ StepFaults(1)

SpecRun == InitRun /\ [][NextRun]_vars

\* Two worker processes polling a store whose jobs have no cover and an input
\* that is absent, undecodable or decodable; the workers draw black rectangles.
TickConfigs == {[input |-> i, cover |-> "no"] : i \in {"none", "garbage", "image"}}

InitTicks ==
    \E cfg \in [Jobs -> TickConfigs] :
        /\ processing_collection = [j \in Jobs |-> NewRecord(j, cfg[j])]
        /\ input_bucket = InitialBlobs(cfg)
        /\ output_bucket = <<>>
        /\ collection = <<>>
        /\ redaction_image = [w \in Workers |-> InitRedaction("none").image]
        /\ redaction_method = [w \in Workers |-> InitRedaction("none").method]
        /\ configured = [w \in Workers |-> InitRedaction("none")]
        /\ pc = [w \in Workers |-> "idle"]
        /\ pending_records = [w \in Workers |-> <<>>]
        /\ local = [w \in Workers |-> NoLocal]
        /\ fetched = [w \in Workers |-> {}]
        /\ visited = [w \in Workers |-> {}]
        /\ raised = [w \in Workers |-> {}]
        /\ escaped = [w \in Workers |-> FALSE]
        /\ swallowed = [w \in Workers |-> FALSE]
        /\ completions = [j \in Jobs |-> 0]
        /\ faults = 0
        /\ render = NoRender
        /\ response = NoResponse
        /\ flask_app = Serving

SpecTicks == InitTicks /\ [][NextWorkers]_vars

\* ------------------------------------------------------------ the renderer
\* redact_faces pixel by pixel. An image is a function from the pixels
\* <<column, row>> (zero-based, as numpy and OpenCV count them) to a colour,
\* a triple of channel values 0..255. Arrays live in a heap, so that the copy
\* redact_faces works on and the array its caller holds are two arrays.
Pixels == (0..(ImageWidth - 1)) \X (0..(ImageHeight - 1))

Black == <<0, 0, 0>>

\* The image the caller passes: no pixel of it is black or has a cover's colour.
SourceImage == [p \in Pixels |-> LET v == 100 + ((p[1] + p[2]) % 2) IN <<v, v, v>>]

\* The redaction images: decoded with IMREAD_UNCHANGED, so with three channels
\* or with a fourth, the alpha channel. Every pixel of a cover has the same
\* colour and alpha, so that resizing it yields that colour and alpha whatever
\* the interpolation.
Cover(channels, colour, alpha) ==
    [width |-> 2, height |-> 2, channels |-> channels, colour |-> colour,
     alpha |-> alpha]
NoCover == [channels |-> 0]
Covers ==
    {Cover(3, <<10, 20, 30>>, 255),
     Cover(4, <<10, 20, 30>>, 255),
     Cover(4, <<10, 20, 30>>, 0),
     Cover(4, <<200, 210, 220>>, 128),
     Cover(4, <<0, 0, 0>>, 204)}

\* self.redaction_image / self.redaction_method: __init__ and the swap of
\* process_gridfs_images set the method to "image" only with an image.
RedactionConfigs ==
    {[image |-> NoCover, method |-> "rectangle"]}
    \cup {[image |-> c, method |-> "image"] : c \in Covers}

\* What the detector returns for a face.
BoxFace(x, y, w, h, c) == [box |-> <<x, y, w, h>>, confidence |-> c]
Boxes ==
    {<<3, 3, 4, 4>>,                    \* inside the image
     <<1, 1, 10, 10>>,                  \* inside, enlarged to 11 x 11
     <<-1, -1, 10, 10>>,                \* negative corner
     <<8, 8, 5, 5>>,                    \* reaches over the right edge
     <<ImageWidth, ImageHeight, 3, 3>>, \* outside the image
     <<ImageWidth, 0, 1, 1>>,           \* outside, one pixel
     <<3, 3, 0, 4>>}                    \* no width
Confidences == {50, 90, 99}
PairFaces ==
    {BoxFace(3, 3, 4, 4, 99), BoxFace(1, 1, 10, 10, 50),
     BoxFace(1, 1, 10, 10, 99), BoxFace(8, 8, 5, 5, 99)}
BoxFaceLists ==
    {<<>>}
    \cup {<<BoxFace(b[1], b[2], b[3], b[4], c)>> : b \in Boxes, c \in Confidences}
    \cup {<<f, g>> : f \in PairFaces, g \in PairFaces}

Min(a, b) == IF a < b THEN a ELSE b

\* Mutant of Enlarge: the box is scaled by 0.8.
Enlarge_Shrunk(n) == (n * 8) \div 10

\* int(width * 1.1), int(height * 1.1)
Enlarge(n) == (n * 11) \div 10

\* Lines 150-158: the box redact_faces works with.
Geometry(face) ==
    [x |-> IF face.box[1] < 0 THEN 0 ELSE face.box[1],
     y |-> IF face.box[2] < 0 THEN 0 ELSE face.box[2],
     width |-> Enlarge(face.box[3]),
     height |-> Enlarge(face.box[4])]

\* Mutant of Gated: no face is skipped.
Gated_Never(face) == FALSE

\* if confidence < 0.9: continue
Gated(face) == face.confidence < Threshold

\* cv2.rectangle(img, (x, y), (x + width, y + height), (0, 0, 0), -1): both
\* corners belong to the filled rectangle; what lies outside the image is
\* clipped.
rectangle(pixels, g) ==
    [p \in Pixels |->
        IF /\ g.x <= p[1] /\ p[1] <= g.x + g.width
           /\ g.y <= p[2] /\ p[2] <= g.y + g.height
        THEN Black ELSE pixels[p]]

\* The pixels of the slice [y : y + height, x : x + width] and its shape.
Slice(g) ==
    {p \in Pixels : /\ g.x <= p[1] /\ p[1] < g.x + g.width
                    /\ g.y <= p[2] /\ p[2] < g.y + g.height}
SliceCols(g) == Min(g.x + g.width, ImageWidth) - Min(g.x, ImageWidth)
SliceRows(g) == Min(g.y + g.height, ImageHeight) - Min(g.y, ImageHeight)

\* numpy broadcasting of an array's dimension src onto a slice's dimension tgt.
Broadcasts(src, tgt) == src = tgt \/ src = 1

\* cv2.resize(self.redaction_image, (width, height)); it raises on an empty size.
resize(cover, width, height) ==
    [cover EXCEPT !.width = width, !.height = height]

\* The triples <<base, overlay, alpha>>, among the values the images and covers
\* above produce, for which base * (1 - alpha / 255.0) + overlay * (alpha / 255.0)
\* evaluated in double precision is below its exact value, an integer.
DoubleShortfall == {<<100, 0, 204>>, <<20, 0, 204>>}

\* roi[:, :, c] * (1 - redaction_alpha) + redaction_rgb[:, :, c] * redaction_alpha
\* stored into the uint8 image: the double is truncated.
blend(base, overlay, alpha) ==
    LET exact == base * (255 - alpha) + overlay * alpha
    IN IF <<base, overlay, alpha>> \in DoubleShortfall
       THEN (exact \div 255) - 1
       ELSE exact \div 255

\* Lines 169-193: the cover resized to the box and written into its slice.
overlay(pixels, g, cover) ==
    IF g.width <= 0 \/ g.height <= 0
    THEN [raises |-> TRUE, pixels |-> pixels]
    ELSE LET resized == resize(cover, g.width, g.height)
         IN IF ~(/\ Broadcasts(resized.height, SliceRows(g))
                 /\ Broadcasts(resized.width, SliceCols(g)))
            THEN [raises |-> TRUE, pixels |-> pixels]
            ELSE [raises |-> FALSE,
                  pixels |->
                    [p \in Pixels |->
                        IF p \notin Slice(g) THEN pixels[p]
                        ELSE IF resized.channels = 4
                        THEN [c \in 1..3 |->
                                 blend(pixels[p][c], resized.colour[c], resized.alpha)]
                        ELSE resized.colour]]

\* Lines 148-198: the loop over the faces from face i on.
RECURSIVE RedactFrom(_, _, _, _, _, _)
RedactFrom(pixels, faces, i, num_faces, self_image, self_method) ==
    IF i > Len(faces)
    THEN [raises |-> FALSE, pixels |-> pixels, num_faces |-> num_faces]
    ELSE IF Gated(faces[i])
    THEN RedactFrom(pixels, faces, i + 1, num_faces, self_image, self_method)
    ELSE IF self_method = "image" /\ self_image # NoCover
    THEN LET o == overlay(pixels, Geometry(faces[i]), self_image)
         IN IF o.raises
            THEN [raises |-> TRUE, pixels |-> pixels, num_faces |-> num_faces + 1]
            ELSE RedactFrom(o.pixels, faces, i + 1, num_faces + 1,
                            self_image, self_method)
    ELSE RedactFrom(rectangle(pixels, Geometry(faces[i])), faces, i + 1,
                    num_faces + 1, self_image, self_method)

\* Mutant of copy: the array itself is handed back.
copy_Alias(heap, image) == [heap |-> heap, image |-> image]

\* image.copy(): a new array with the same pixels.
copy(heap, image) ==
    [heap |-> Append(heap, heap[image]), image |-> Len(heap) + 1]

\* redact_faces(image, faces) at the level of pixels: the heap afterwards, and
\* what is returned unless it raised: the array redacted_image, its pixels at
\* the return, and num_faces.
redact_faces_pixels(heap, image, faces, self_image, self_method) ==
    LET c == copy(heap, image)
        r == RedactFrom(c.heap[c.image], faces, 1, 0, self_image, self_method)
    IN IF r.raises
       THEN [heap |-> c.heap, result |-> [NoResult EXCEPT !.raises = TRUE]]
       ELSE [heap |-> [c.heap EXCEPT ![c.image] = r.pixels],
             result |-> [raises |-> FALSE, image |-> c.image,
                         pixels |-> r.pixels, num_faces |-> r.num_faces]]

\* The file names the renderer's records carry.
Filenames ==
    {<<"a", ".", "j", "p", "g">>,
     <<"a", ".", "J", "P", "G">>,
     <<"a", ".", "j", "p", "e", "g">>,
     <<"a", ".", "J", "p", "e", "g">>,
     <<"a", ".", "p", "n", "g">>,
     <<"a", ".", "g", ".", "j", "p", "g">>,
     <<"a", ".", "j", "p", "g", ".", "p", "n", "g">>,
     <<"a", "j", "p", "g">>,
     <<".", "j", "p", "g">>,
     <<"a", ".">>,
     NoFilename}

\* ------------------------------------------------- the renderer's actions
\* A caller holds an image (array 1 of the heap), the faces the detector
\* returned for it and a worker's redaction settings.
InitRender ==
    /\ \E faces \in BoxFaceLists, cfg \in RedactionConfigs :
          render = [NoRender EXCEPT
                       !.stage = "called",
                       !.heap = <<SourceImage>>,
                       !.original = SourceImage,
                       !.faces = faces,
                       !.self_image = cfg.image,
                       !.self_method = cfg.method]
    /\ processing_collection = << >>
    /\ input_bucket = << >>
    /\ output_bucket = <<>>
    /\ collection = <<>>
    /\ redaction_image = [w \in Workers |-> NoImage]
    /\ redaction_method = [w \in Workers |-> "rectangle"]
    /\ configured = [w \in Workers |-> InitRedaction("none")]
    /\ pc = [w \in Workers |-> "idle"]
    /\ pending_records = [w \in Workers |-> <<>>]
    /\ local = [w \in Workers |-> NoLocal]
    /\ fetched = [w \in Workers |-> {}]
    /\ visited = [w \in Workers |-> {}]
    /\ raised = [w \in Workers |-> {}]
    /\ escaped = [w \in Workers |-> FALSE]
    /\ swallowed = [w \in Workers |-> FALSE]
    /\ completions = [j \in Jobs |-> 0]
    /\ faults = 0
    /\ response = NoResponse
    /\ flask_app = Serving

pipeline == <<store, redaction_image, redaction_method, configured, pc,
              pending_records, local, history, response, flask_app>>

\* img_redacted, num_faces = self.redact_faces(img, faces)
RedactFaces ==
    /\ render.stage = "called"
    /\ LET o == redact_faces_pixels(render.heap, 1, render.faces,
                                    render.self_image, render.self_method)
       IN render' = [render EXCEPT !.stage = "returned",
                                   !.heap = o.heap,
                                   !.result = o.result]
    /\ UNCHANGED pipeline

\* The same call once more, on the arrays as the first call left them.
RedactFacesAgain ==
    /\ render.stage = "returned"
    /\ LET o == redact_faces_pixels(render.heap, 1, render.faces,
                                    render.self_image, render.self_method)
       IN render' = [render EXCEPT !.stage = "again",
                                   !.heap = o.heap,
                                   !.again = o.result]
    /\ UNCHANGED pipeline

\* cv2.imencode(ext, img_redacted) and the naming of the output blob, for a
\* record with the file name filename.
Encode ==
    /\ render.stage = "returned"
    /\ ~render.result.raises
    /\ \E filename \in Filenames, success \in BOOLEAN :
          render' = [render EXCEPT
                        !.stage = "encoded",
                        !.filename = filename,
                        !.encoded =
                            IF success
                            THEN [raises |-> FALSE,
                                  format |-> EncodeAs(filename).format,
                                  output_filename |->
                                      EncodeAs(filename).output_filename]
                            ELSE [NoEncoded EXCEPT !.raises = TRUE]]
    /\ UNCHANGED pipeline

NextRender == RedactFaces \/ RedactFacesAgain \/ Encode

SpecRender == InitRender /\ [][NextRender]_vars

\* ------------------------------------------------------------ the front end
\* request.files: a file with its name and its bytes (an image or not), or none.
NoFile == [filename |-> <<>>, kind |-> "none"]
File(filename, kind) == [filename |-> filename, kind |-> kind]
FaceImages ==
    {NoFile,
     File(<<"a", ".", "j", "p", "g">>, "image"),
     File(<<".", "J", "P", "G">>, "garbage"),
     File(<<"a", ".", "j", "p", "e", "g">>, "image")}
CoverImages ==
    {NoFile,
     File(<<"a", ".", "p", "n", "g">>, "image"),
     File(<<"a", "j", "p", "g">>, "image")}

\* Mutant of allowed_file: every file name is let through.
allowed_file_Any(filename) == TRUE

\* "." in filename and filename.rsplit(".", 1)[1].lower() in ["jpg", "png"]
allowed_file(filename) ==
    LET dots == {i \in 1..Len(filename) : filename[i] = "."}
        last == CHOOSE i \in dots : \A k \in dots : k <= i
    IN /\ dots # {}
       /\ lower(SubSeq(filename, last + 1, Len(filename)))
              \in {<<"j", "p", "g">>, <<"p", "n", "g">>}

\* werkzeug's secure_filename on a name of letters and dots: the dots at its
\* ends are stripped.
RECURSIVE secure_filename(_)
secure_filename(s) ==
    IF s = <<>> THEN s
    ELSE IF Head(s) = "." THEN secure_filename(Tail(s))
    ELSE IF s[Len(s)] = "." THEN secure_filename(SubSeq(s, 1, Len(s) - 1))
    ELSE s

\* Mutant of upload_from_stream: the id is handed out, the blob is not stored.
upload_from_stream_Lost(bucket, blob) ==
    [bucket |-> bucket, id |-> Cardinality(DOMAIN bucket) + 1]

\* GridFSBucket.upload_from_stream: the blob is stored under a new id.
upload_from_stream(bucket, blob) ==
    LET id == Cardinality(DOMAIN bucket) + 1
    IN [bucket |-> [i \in DOMAIN bucket \cup {id} |->
                        IF i = id THEN blob ELSE bucket[i]],
        id |-> id]

\* The document final_image inserts (lines 138-147), under the _id the store
\* gives it; the keys it does not have are written as in NewRecord.
ProcessingRecord(id, file_id, filename, has_custom_cover, cover_image_id) ==
    [_id |-> id,
     input_file_id |-> file_id,
     filename |-> filename,
     status |-> "pending",
     has_custom_cover |-> has_custom_cover,
     cover_image_id |-> IF has_custom_cover THEN cover_image_id ELSE NoId,
     output_file_id |-> NoId,
     num_faces |-> -1,
     confidence_scores |-> <<>>,
     error |-> NoError,
     completed_at |-> FALSE]

\* processing_collection.insert_one(document)
insert_one(coll, document) ==
    [i \in DOMAIN coll \cup {document._id} |->
        IF i = document._id THEN document ELSE coll[i]]

Error400(msg) == [NoResponse EXCEPT !.code = 400, !.error = msg]

\* The answer r of POST /final_image to a request whose faceImage is image_file.
Asked(r, image_file) ==
    [r EXCEPT !.route = "final_image", !.request = image_file.filename]

\* The front end has just started: create_app has dropped the collections;
\* the worker runs with its configured redaction.
InitWeb ==
    \E path \in RedactionPaths :
        /\ processing_collection = << >>
        /\ input_bucket = << >>
        /\ output_bucket = <<>>
        /\ collection = <<>>
        /\ redaction_image = [w \in Workers |-> InitRedaction(path).image]
        /\ redaction_method = [w \in Workers |-> InitRedaction(path).method]
        /\ configured = [w \in Workers |-> InitRedaction(path)]
        /\ pc = [w \in Workers |-> "idle"]
        /\ pending_records = [w \in Workers |-> <<>>]
        /\ local = [w \in Workers |-> NoLocal]
        /\ fetched = [w \in Workers |-> {}]
        /\ visited = [w \in Workers |-> {}]
        /\ raised = [w \in Workers |-> {}]
        /\ escaped = [w \in Workers |-> FALSE]
        /\ swallowed = [w \in Workers |-> FALSE]
        /\ completions = [j \in Jobs |-> 0]
        /\ faults = 0
        /\ render = NoRender
        /\ response = NoResponse
        /\ flask_app = Serving

\* POST /final_image with the files faceImage and coverImage, drawn from
\* faces and covers. The store has room for MaxJobs records and their blobs.
FinalImage(faces, covers) ==
    /\ Cardinality(DOMAIN processing_collection) < MaxJobs
    /\ Cardinality(DOMAIN input_bucket) + 2 <= 2 * MaxJobs + 1
    /\ \E image_file \in faces, cover_image \in covers :
          IF image_file = NoFile
          THEN /\ response' = Asked(Error400("No image file provided"), image_file)
               /\ UNCHANGED <<processing_collection, input_bucket>>
          ELSE
          LET has_custom_cover ==
                  cover_image # NoFile /\ allowed_file(cover_image.filename)
              cover == IF has_custom_cover
                       THEN upload_from_stream(input_bucket, [kind |-> cover_image.kind])
                       ELSE [bucket |-> input_bucket, id |-> NoId]
              filename == secure_filename(image_file.filename)
              input == upload_from_stream(cover.bucket, [kind |-> image_file.kind])
          IN IF allowed_file(image_file.filename)
             THEN /\ input_bucket' = input.bucket
                  /\ processing_collection' =
                        insert_one(processing_collection,
                                   ProcessingRecord(
                                       Cardinality(DOMAIN processing_collection) + 1,
                                       input.id, filename, has_custom_cover, cover.id))
                  /\ response' = Asked([NoResponse EXCEPT
                                                !.code = 200,
                                                !.file_id = input.id,
                                                !.of = "input_images",
                                                !.status = "pending"], image_file)
             ELSE /\ input_bucket' = cover.bucket
                  /\ response' = Asked(Error400("Invalid image file"), image_file)
                  /\ UNCHANGED processing_collection
    /\ UNCHANGED <<output_bucket, collection, redaction_image, redaction_method,
                   configured, render, flask_app, pc, pending_records,
                   local, history>>

final_image == FinalImage(FaceImages, CoverImages)

\* The front end and one worker on the same store. Every record here has an
\* input_file_id, so the worker's skip of a record without one has no part.
NextWeb ==
    \/ final_image
    \/ Find(1)
    \/ Process(1, RaceOutcomes)
    \/ Upload(1)
    \/ Complete(1)
    \/ StoreResult(1)
    \/ Fail(1)
    \/ Return(1)

SpecWeb == InitWeb /\ [][NextWeb]_vars

\* ------------------------------------------------- the front end's queries
\* A bson ObjectId. Ids made for different collections never coincide, so an
\* id is written as the collection it was made for and its number there.
ObjectIdOf(of, n) == [of |-> of, n |-> n]

\* str(ObjectId), the text the front end hands out and is called with.
str(oid) == <<oid.of, oid.n>>

\* A text that is no ObjectId: ObjectId(file_id) raises InvalidId.
Malformed == <<"not-an-id">>
InvalidId(file_id) == Len(file_id) # 2
\* ObjectId(file_id) for a well-formed text
ObjectId(file_id) == [of |-> file_id[1], n |-> file_id[2]]

IdSpaces == {"image_processing", "input_images", "output_images"}
RequestIds ==
    {str(ObjectIdOf(of, n)) : of \in IdSpaces, n \in 1..(MaxJobs + 1)}
    \cup {Malformed}

\* The collection whose ids a field of a processing record holds.
Holds(field) ==
    IF field = "_id" THEN "image_processing"
    ELSE IF field = "input_file_id" THEN "input_images"
    ELSE "output_images"

NoRecord == [_id |-> NoId]

\* Mutant of find_one: the record is looked up by its own _id whatever the
\* field asked for.
find_one_ById(coll, field, oid) ==
    LET hits == {j \in DOMAIN coll :
                    oid.of = Holds("_id") /\ coll[j]["_id"] = oid.n}
    IN IF hits = {} THEN NoRecord
       ELSE coll[CHOOSE j \in hits : \A k \in hits : j <= k]

\* processing_collection.find_one({field: oid}): the first record whose field
\* is that id, or None.
find_one(coll, field, oid) ==
    LET hits == {j \in DOMAIN coll :
                    oid.of = Holds(field) /\ coll[j][field] = oid.n}
    IN IF hits = {} THEN NoRecord
       ELSE coll[CHOOSE j \in hits : \A k \in hits : j <= k]

\* A blob the bucket no longer holds: its id stays used, ObjectIds are not
\* handed out twice.
Deleted ==
    [filename |-> <<>>,
     bytes |-> NoLocal.redacted_bytes,
     input_file_id |-> NoId,
     num_faces |-> -1]

\* output_bucket.open_download_stream(oid) returns (the blob is in the bucket)
Opens(bucket, oid) ==
    /\ oid.of = "output_images"
    /\ oid.n \in 1..Len(bucket)
    /\ bucket[oid.n] # Deleted

JsonError(code, msg) == [NoResponse EXCEPT !.code = code, !.error = msg]
ErrorPage(msg) ==
    [NoResponse EXCEPT !.code = 200, !.page = "error.html", !.error = msg]

\* The answer of GET /check_status/<file_id>.
CheckStatus(coll, file_id) ==
    IF InvalidId(file_id) THEN JsonError(400, "InvalidId")
    ELSE
    LET rec == find_one(coll, "input_file_id", ObjectId(file_id))
    IN IF rec = NoRecord THEN JsonError(404, "Processing record not found")
       ELSE LET done == rec.status = "completed" /\ rec.output_file_id # NoId
            IN [NoResponse EXCEPT
                   !.code = 200,
                   !.status = rec.status,
                   !.file_id = IF done THEN rec._id ELSE NoId,
                   !.of = IF done THEN "image_processing" ELSE "",
                   !.error = IF rec.status = "failed" /\ rec.error # NoError
                             THEN rec.error ELSE ""]

\* Mutant of GetImage: the record is looked up by its input blob's id, as
\* check_status does.
GetImage_ByInput(coll, bucket, file_id) ==
    IF InvalidId(file_id) THEN ErrorPage("InvalidId")
    ELSE
    LET rec == find_one(coll, "input_file_id", ObjectId(file_id))
    IN IF rec = NoRecord THEN ErrorPage("Processing record not found")
       ELSE IF rec.status # "completed"
       THEN ErrorPage("Image processing is " \o rec.status)
       ELSE IF rec.output_file_id = NoId
       THEN ErrorPage("Output file ID not found")
       ELSE IF ~Opens(bucket, ObjectIdOf("output_images", rec.output_file_id))
       THEN ErrorPage("Output file not found")
       ELSE [NoResponse EXCEPT
                !.code = 200,
                !.page = "result.html",
                !.file_id = rec.output_file_id,
                !.of = "output_images",
                !.num_faces = IF rec.num_faces = -1 THEN 0 ELSE rec.num_faces]

\* The answer of GET /get_image/<file_id>: result.html or error.html.
GetImage(coll, bucket, file_id) ==
    IF InvalidId(file_id) THEN ErrorPage("InvalidId")
    ELSE
    LET rec == find_one(coll, "_id", ObjectId(file_id))
    IN IF rec = NoRecord THEN ErrorPage("Processing record not found")
       ELSE IF rec.status # "completed"
       THEN ErrorPage("Image processing is " \o rec.status)
       ELSE IF rec.output_file_id = NoId
       THEN ErrorPage("Output file ID not found")
       ELSE IF ~Opens(bucket, ObjectIdOf("output_images", rec.output_file_id))
       THEN ErrorPage("Output file not found")
       ELSE [NoResponse EXCEPT
                !.code = 200,
                !.page = "result.html",
                !.file_id = rec.output_file_id,
                !.of = "output_images",
                !.num_faces = IF rec.num_faces = -1 THEN 0 ELSE rec.num_faces]

\* Lines 295-299: the MIME type is read off the blob's file name as it is.
mimetype(filename) ==
    IF \/ endswith(filename, <<".", "j", "p", "g">>)
       \/ endswith(filename, <<".", "j", "p", "e", "g">>)
    THEN "image/jpeg"
    ELSE "image/png"

\* The answer of GET /image_data/<file_id>.
ImageData(bucket, file_id) ==
    IF InvalidId(file_id) THEN JsonError(400, "InvalidId")
    ELSE IF ~Opens(bucket, ObjectId(file_id)) THEN JsonError(400, "NoFile")
    ELSE [NoResponse EXCEPT !.code = 200,
                            !.mimetype = mimetype(bucket[ObjectId(file_id).n].filename),
                            !.body = bucket[ObjectId(file_id).n].bytes]

\* What a handler that only reads leaves alone.
read_only == <<store, redaction_image, redaction_method, configured, render,
               flask_app, pc, pending_records, local, history>>

check_status ==
    /\ \E file_id \in RequestIds :
          response' = [CheckStatus(processing_collection, file_id)
                          EXCEPT !.route = "check_status", !.request = file_id]
    /\ UNCHANGED read_only

get_image ==
    /\ \E file_id \in RequestIds :
          response' = [GetImage(processing_collection, output_bucket, file_id)
                          EXCEPT !.route = "get_image", !.request = file_id]
    /\ UNCHANGED read_only

image_data ==
    /\ \E file_id \in RequestIds :
          response' = [ImageData(output_bucket, file_id)
                          EXCEPT !.route = "image_data", !.request = file_id]
    /\ UNCHANGED read_only

\* A client of the front end: uploads, and the three queries, while one
\* worker with the default redaction processes what was uploaded.
InitFront == InitWeb /\ \A w \in Workers : configured[w] = InitRedaction("none")

\* the uploads of the client: a face image that decodes or does not, with or
\* without a cover
FrontFaceImages ==
    {File(<<"a", ".", "j", "p", "g">>, "image"),
     File(<<".", "J", "P", "G">>, "garbage")}
FrontCoverImages == {NoFile, File(<<"a", ".", "p", "n", "g">>, "image")}
FrontOutcomes == {[raises |-> FALSE, faces |-> <<Face(99), Face(50)>>]}

NextFront ==
    \/ FinalImage(FrontFaceImages, FrontCoverImages)
    \/ check_status
    \/ get_image
    \/ image_data
    \/ Find(1)
    \/ Process(1, FrontOutcomes)
    \/ Upload(1)
    \/ Complete(1)
    \/ StoreResult(1)
    \/ Fail(1)
    \/ Return(1)

SpecFront == InitFront /\ [][NextFront]_vars

\* ------------------------------------------------------------ create_app
\* How often the front end is started again in a behaviour.
MaxStarts == 1

\* The collections of the database. A GridFS bucket is two collections,
\* <bucket_name>.files and <bucket_name>.chunks.
FilesOf(bucket_name) == {bucket_name \o ".files", bucket_name \o ".chunks"}

\* db.list_collection_names(): the collections that hold something (MongoDB
\* makes a collection with its first document).
list_collection_names(jobs, inputs, outputs, results) ==
    (IF DOMAIN jobs # {} THEN {"image_processing"} ELSE {})
    \cup (IF results # <<>> THEN {"face_detection_results"} ELSE {})
    \cup (IF DOMAIN inputs # {} THEN FilesOf("input_images") ELSE {})
    \cup (IF \E i \in 1..Len(outputs) : outputs[i] # Deleted
          THEN FilesOf("output_images") ELSE {})

\* Mutant of Dropped: the GridFS collections of the two buckets and the job
\* records are kept, the results log is dropped.
Dropped_LogOnly(names) == names \cap {"face_detection_results"}

\* if collection not in ["fs.files", "fs.chunks"]: db[collection].drop()
Dropped(names) == {c \in names : c \notin {"fs.files", "fs.chunks"}}

\* The front end's process is started (again): app = create_app(), which
\* drops the collections before the routes are served.
create_app ==
    /\ flask_app.started < MaxStarts
    /\ LET names == Dropped(list_collection_names(
                        processing_collection, input_bucket, output_bucket,
                        collection))
       IN /\ processing_collection' =
                IF "image_processing" \in names THEN << >>
                ELSE processing_collection
          /\ collection' =
                IF "face_detection_results" \in names THEN <<>> ELSE collection
          /\ input_bucket' =
                IF FilesOf("input_images") \cap names # {} THEN << >>
                ELSE input_bucket
          /\ output_bucket' =
                IF FilesOf("output_images") \cap names # {}
                THEN [i \in 1..Len(output_bucket) |-> Deleted]
                ELSE output_bucket
    /\ flask_app' = [flask_app EXCEPT !.started = @ + 1]
    /\ UNCHANGED <<redaction_image, redaction_method, configured, render, response,
                   pc, pending_records, local, history>>

\* A database with pending jobs, one worker, the front end's queries, and the
\* front end started again at any moment.
NextRestart ==
    \/ create_app
    \/ check_status
    \/ get_image
    \/ image_data
    \/ Step(1, FrontOutcomes)

SpecRestart == InitTicks /\ [][NextRestart]_vars

\* ----------------------------------------------------------------- claims
job(j) == processing_collection[j]

\* The output blobs made from job j's input, and the result records of job j.
BlobsOf(j) ==
    {i \in 1..Len(output_bucket) : output_bucket[i].input_file_id = InputId(j)}
ResultsOf(j) ==
    {i \in 1..Len(collection) : collection[i].filename = job(j).filename}

\* The cover a worker's configured default redaction puts on a face: the
\* configured image in image mode, none (a black rectangle) otherwise.
DefaultCover(w) ==
    IF configured[w].method = "image" THEN configured[w].image ELSE NoImage

\* C1: for every job the persisted status changes only from pending to
\* completed or from pending to failed, and a record that is completed or
\* failed is not changed by any later write (status or any other field).
C1_TerminalNeverMutated ==
    [][\A j \in Jobs :
         /\ job(j).status # "pending"
              => processing_collection'[j] = processing_collection[j]
         /\ processing_collection'[j].status # job(j).status
              => /\ job(j).status = "pending"
                 /\ processing_collection'[j].status \in {"completed", "failed"}]_vars

\* C2: in every reachable state a record has output_file_id set iff its status
\* is completed, and error set iff its status is failed.
C2_OutputIffCompleted ==
    \A j \in Jobs :
        /\ job(j).output_file_id # NoId <=> job(j).status = "completed"
        /\ job(j).error # NoError <=> job(j).status = "failed"

\* C3: every completed job has as many confidence scores as counted faces.
C3_ScoresMatchCount ==
    \A j \in Jobs :
        job(j).status = "completed"
            => Len(job(j).confidence_scores) = job(j).num_faces

\* C4: an output in which a face was redacted for a job without a custom cover
\* carries the worker's configured default redaction, and no output carries the
\* cover of another job.
C4_CoverForThatJobOnly ==
    \A i \in 1..Len(output_bucket) : \A j \in Jobs :
        (output_bucket[i].input_file_id = InputId(j)
            /\ output_bucket[i].bytes.redacted > 0)
        => /\ ~job(j).has_custom_cover
                => \A w \in Workers : output_bucket[i].bytes.cover = DefaultCover(w)
           /\ output_bucket[i].bytes.cover
                \in {DefaultCover(w) : w \in Workers} \cup {CoverId(j)}

\* C6: at most one completed transition is written for a job, also when two
\* workers fetched it while it was pending.
C6_AtMostOneCompletion ==
    \A j \in Jobs : completions[j] <= 1

\* C10: an output in which a face was redacted for a job whose cover blob
\* does not decode carries black rectangles (no cover), whatever the worker's
\* configured default is.
C10_UndecodableCoverIsBlack ==
    \A i \in 1..Len(output_bucket) : \A j \in Jobs :
        (/\ output_bucket[i].input_file_id = InputId(j)
         /\ output_bucket[i].bytes.redacted > 0
         /\ job(j).has_custom_cover
         /\ CoverId(j) \in DOMAIN input_bucket
         /\ input_bucket[CoverId(j)].kind = "garbage")
        => output_bucket[i].bytes.cover = NoImage

\* What the input bucket holds for job j.
InputMissing(j) ==
    job(j).input_file_id # NoId /\ job(j).input_file_id \notin DOMAIN input_bucket
InputGarbage(j) ==
    /\ job(j).input_file_id \in DOMAIN input_bucket
    /\ input_bucket[job(j).input_file_id].kind = "garbage"
InputDecodable(j) ==
    /\ job(j).input_file_id \in DOMAIN input_bucket
    /\ input_bucket[job(j).input_file_id].kind = "image"
CoverMissing(j) ==
    /\ job(j).has_custom_cover
    /\ job(j).cover_image_id # NoId
    /\ job(j).cover_image_id \notin DOMAIN input_bucket

\* The call of worker w has returned.
Returned(w) == pc[w] = "idle"

\* Job j is recorded as failed with message m.
FailedWith(j, m) ==
    /\ job(j).status = "failed"
    /\ job(j).error = m
    /\ job(j).completed_at

C7_CleanCallCompletes ==
    \A w \in Workers :
        (Returned(w) /\ raised[w] = {} /\ ~escaped[w] /\ ~swallowed[w]) =>
            \A j \in fetched[w] :
                InputDecodable(j) =>
                    /\ job(j).status = "completed"
                    /\ job(j).output_file_id \in 1..Len(output_bucket)
                    /\ ResultsOf(j) # {}

\* A clean call has returned that completed every job of a full batch.
C7_Witness ==
    /\ Returned(1) /\ raised[1] = {} /\ ~escaped[1] /\ ~swallowed[1]
    /\ fetched[1] = Jobs
    /\ \A j \in Jobs : InputDecodable(j) /\ job(j).status = "completed"

\* C8: a job for which the detector raised has no output blob, and once its
\* iteration has ended it is failed with the detector's message.
C8_DetectorFailure ==
    \A w \in Workers : \A j \in Jobs :
        <<j, DetectorMsg>> \in raised[w] =>
            /\ BlobsOf(j) = {}
            /\ j \in visited[w] => FailedWith(j, DetectorMsg)

\* The detector raised for a job and the job's iteration has ended.
C8_Witness ==
    \E j \in Jobs :
        /\ <<j, DetectorMsg>> \in raised[1]
        /\ j \in visited[1]
        /\ job(j).status = "failed"

Called == render.stage \in {"returned", "again", "encoded"}
Redacted == Called /\ ~render.result.raises

\* The faces of the call that pass the 0.9 gate, and those whose box (as the
\* detector gave it) lies inside the image.
Counted == {i \in 1..Len(render.faces) : render.faces[i].confidence >= Threshold}
BoxInside(face) ==
    /\ face.box[1] >= 0 /\ face.box[1] + face.box[3] <= ImageWidth
    /\ face.box[2] >= 0 /\ face.box[2] + face.box[4] <= ImageHeight
    /\ face.box[3] > 0 /\ face.box[4] > 0

\* The pixels of a face's box [y : y + h, x : x + w] and of its enlarged box,
\* width and height scaled by 1.1 from the (clamped) top-left corner.
InBox(face) ==
    {p \in Pixels : /\ face.box[1] <= p[1] /\ p[1] < face.box[1] + face.box[3]
                    /\ face.box[2] <= p[2] /\ p[2] < face.box[2] + face.box[4]}
InEnlargedBox(face) ==
    LET x == IF face.box[1] < 0 THEN 0 ELSE face.box[1]
        y == IF face.box[2] < 0 THEN 0 ELSE face.box[2]
    IN {p \in Pixels : /\ x <= p[1] /\ 10 * (p[1] - x) < 11 * face.box[3]
                       /\ y <= p[2] /\ 10 * (p[2] - y) < 11 * face.box[4]}
\* The enlarged box together with the row below it and the column right of it.
Around(face) ==
    LET x == IF face.box[1] < 0 THEN 0 ELSE face.box[1]
        y == IF face.box[2] < 0 THEN 0 ELSE face.box[2]
    IN {p \in Pixels : /\ x <= p[1] /\ 10 * (p[1] - x) <= 11 * face.box[3]
                       /\ y <= p[2] /\ 10 * (p[2] - y) <= 11 * face.box[4]}

\* C11: the count redact_faces returns is the number of faces with confidence
\* of at least 0.9, and a pixel that no such face's redaction reaches is as it
\* was in the input (so a face below 0.9 is neither counted nor rendered).
C11_ConfidenceGating ==
    Redacted =>
        /\ render.result.num_faces = Cardinality(Counted)
        /\ \A p \in Pixels :
              (\A i \in Counted : p \notin Around(render.faces[i]))
                  => render.result.pixels[p] = render.original[p]

\* A face above and a face below the gate: one is counted, the first one's box
\* is redacted, the second one's box is untouched where the first does not
\* reach.
C11_Witness ==
    /\ Redacted
    /\ render.faces = <<BoxFace(3, 3, 4, 4, 99), BoxFace(1, 1, 10, 10, 50)>>
    /\ render.result.num_faces = 1
    /\ render.result.pixels[<<4, 4>>] # render.original[<<4, 4>>]
    /\ render.result.pixels[<<9, 9>>] = render.original[<<9, 9>>]

\* C12: whatever the boxes and the mode, redact_faces does not raise, counts
\* every face that passes the gate (also one whose box lies outside the image)
\* and renders nothing for a box outside the image.
C12_ClampsAndNeverRaises ==
    Called =>
        /\ ~render.result.raises
        /\ render.result.num_faces = Cardinality(Counted)
        /\ (\A i \in Counted : Around(render.faces[i]) = {})
              => render.result.pixels = render.original

\* C13: in rectangle mode, one face of confidence >= 0.9 with its box inside
\* the image: the output has the input's pixels' positions, every pixel of the
\* box is black, every pixel outside the enlarged box is unchanged, and the
\* count is 1.
C13_RectangleFillsBox ==
    (/\ Called
     /\ render.self_method = "rectangle"
     /\ Len(render.faces) = 1
     /\ Counted = {1}
     /\ BoxInside(render.faces[1]))
    => /\ ~render.result.raises
       /\ DOMAIN render.result.pixels = Pixels
       /\ render.result.num_faces = 1
       /\ \A p \in InBox(render.faces[1]) : render.result.pixels[p] = Black
       /\ \A p \in Pixels \ InEnlargedBox(render.faces[1]) :
             render.result.pixels[p] = render.original[p]

\* C14: in overlay mode, one counted face whose enlarged box lies inside the
\* image: with a cover without alpha or with alpha 255 the region is the
\* resized cover; with alpha 0 it is unchanged; otherwise each channel is
\* base * (1 - a) + overlay * a, a = alpha / 255, up to its storage as an
\* 8-bit value (less than one unit away from the exact value).
C14_OverlayBlend ==
    (/\ Redacted
     /\ render.self_method = "image"
     /\ Len(render.faces) = 1
     /\ Counted = {1}
     /\ BoxInside(render.faces[1])
     /\ InEnlargedBox(render.faces[1]) = Slice(Geometry(render.faces[1]))
     /\ SliceCols(Geometry(render.faces[1])) = Geometry(render.faces[1]).width
     /\ SliceRows(Geometry(render.faces[1])) = Geometry(render.faces[1]).height)
    => \A p \in InEnlargedBox(render.faces[1]) : \A c \in 1..3 :
          LET cover == render.self_image
              out == render.result.pixels[p][c]
              base == render.original[p][c]
              exact255 == base * (255 - cover.alpha) + cover.colour[c] * cover.alpha
          IN IF cover.channels = 3 \/ cover.alpha = 255 THEN out = cover.colour[c]
             ELSE IF cover.alpha = 0 THEN out = base
             ELSE /\ 255 * out - exact255 < 255
                  /\ exact255 - 255 * out < 255

\* C15: redact_faces leaves the caller's array as it was and returns another
\* array; with no face that passes the gate the returned image has the
\* input's pixels and the count is 0.
C15_CallerImageUntouched ==
    Called =>
        /\ render.heap[1] = render.original
        /\ ~render.result.raises => render.result.image # 1
        /\ Counted = {} =>
              /\ ~render.result.raises
              /\ render.result.pixels = render.original
              /\ render.result.num_faces = 0

\* A call that redacted a face returned a new array and left the caller's
\* array alone.
C15_Witness ==
    /\ Redacted
    /\ render.faces = <<BoxFace(3, 3, 4, 4, 99)>>
    /\ render.result.pixels # render.original
    /\ render.heap[render.result.image] = render.result.pixels
    /\ render.result.image = 2
    /\ render.heap[1] = render.original

SameLetter(a, b) ==
    a = b \/ {a, b} \in {{"J", "j"}, {"P", "p"}, {"G", "g"}, {"E", "e"}}
EndsLike(s, suffix) ==
    /\ Len(suffix) <= Len(s)
    /\ \A i \in 1..Len(suffix) :
          SameLetter(s[Len(s) - Len(suffix) + i], suffix[i])

\* C17: the output is encoded as JPEG exactly when the job's file name ends,
\* whatever the case, with .jpg or .jpeg, and as PNG otherwise (also without a
\* file name); the blob's name is the file name with _redacted put before its
\* extension (the part from the last dot on, if there is a name before it).
C17_FormatFollowsFilename ==
    (render.stage = "encoded" /\ ~render.encoded.raises) =>
        LET given == IF render.filename = NoFilename THEN <<>> ELSE render.filename
            named == IF render.filename = NoFilename
                     THEN <<"unknown">> ELSE render.filename
            out == render.encoded.output_filename
        IN /\ render.encoded.format \in {"jpeg", "png"}
           /\ render.encoded.format = "jpeg"
                <=> \/ EndsLike(given, <<".", "j", "p", "g">>)
                    \/ EndsLike(given, <<".", "j", "p", "e", "g">>)
           /\ \E k \in 0..Len(named) :
                 /\ out = SubSeq(named, 1, k) \o <<"_redacted">>
                            \o SubSeq(named, k + 1, Len(named))
                 /\ \A i \in (k + 2)..Len(named) : named[i] # "."
                 /\ k < Len(named) =>
                       /\ named[k + 1] = "."
                       /\ \E i \in 1..k : named[i] # "."
                 /\ k = Len(named) =>
                       \A i \in 1..Len(named) :
                           named[i] = "." => \A h \in 1..i : named[h] = "."

\* A job named a.JPG was encoded as JPEG into a_redacted.JPG.
C17_Witness ==
    /\ render.stage = "encoded"
    /\ render.filename = <<"a", ".", "J", "P", "G">>
    /\ render.encoded.format = "jpeg"
    /\ render.encoded.output_filename = <<"a", "_redacted", ".", "J", "P", "G">>

\* ----------------------------------------------------- claims on the loop
\* C18: the worker process exits only out of its construction (the store did
\* not answer at startup); a failed fetch of the batch, or a store error that
\* left a job's iteration, ends the tick with the worker back in run(), and
\* the next tick can start and fetches every job that is pending then.
C18_LoopSurvivesErrors ==
    /\ [](\A w \in Workers :
             /\ escaped[w] => (pc[w] = "idle" /\ pending_records[w] = <<>>)
             /\ pc[w] = "idle" => ENABLED Find(w))
    /\ [][\A w \in Workers :
             /\ pc'[w] = "exited" => pc[w] \in {"start", "exited"}
             /\ (pc[w] = "idle" /\ pc'[w] = "loop") =>
                   fetched'[w] = {j \in Jobs : job(j).status = "pending"}]_vars

\* A tick ended by a store error (the fetch, or the write of a failed
\* transition) was followed by a tick that fetched the whole batch again.
C18_Witness ==
    /\ faults = 1
    /\ pc[1] = "loop"
    /\ ~escaped[1]
    /\ raised[1] = {}
    /\ fetched[1] = Jobs
    /\ \A j \in Jobs : job(j).status = "pending"

\* Worker w takes a step of an iteration (not the find that starts a tick).
Works(w) == pc[w] \in {"loop", "upload", "update", "store", "except"} /\ pc'[w] # pc[w]

\* C19: a failed job does not become pending again; a poll tick of any worker
\* that starts when a job is failed does not fetch it; and a worker works
\* only on jobs its tick fetched: every iteration step, every new output blob
\* and every new result record is for a job the acting worker fetched in this
\* tick.
C19_FailedNeverRetried ==
    [][\A j \in Jobs :
          /\ job(j).status = "failed" => processing_collection'[j].status # "pending"
          /\ \A w \in Workers :
                (pc[w] = "idle" /\ pc'[w] = "loop" /\ job(j).status = "failed")
                    => (j \notin fetched'[w] /\ j \notin Ids(pending_records'[w]))
          /\ \A w \in Workers :
                (Works(w) /\ pending_records[w] # <<>> /\ record(w)._id = j)
                    => j \in fetched[w]
          /\ (Len(output_bucket') > Len(output_bucket)
                /\ output_bucket'[Len(output_bucket')].input_file_id = job(j).input_file_id)
               => \E w \in Workers : Works(w) /\ record(w)._id = j /\ j \in fetched[w]
          /\ (Len(collection') > Len(collection)
                /\ collection'[Len(collection')].filename = job(j).filename)
               => \E w \in Workers : Works(w) /\ record(w)._id = j /\ j \in fetched[w]
      ]_vars

\* A tick that started after job 1 had failed fetched job 2 and not job 1.
C19_Witness ==
    \E w \in Workers :
        /\ job(1).status = "failed"
        /\ completions[1] = 0
        /\ BlobsOf(1) = {}
        /\ pc[w] # "idle"
        /\ fetched[w] = {2}
        /\ 2 \notin visited[w]

\* -------------------------------------------------- claims on the front end
\* C20: a record that appears in image_processing is pending, has no
\* output_file_id and no error, its input_file_id names a blob of the input
\* bucket, and it has a cover_image_id exactly if has_custom_cover is true,
\* the cover then being a blob of the input bucket too.
C20_CreatedPending ==
    [][\A j \in DOMAIN processing_collection' \ DOMAIN processing_collection :
          LET r == processing_collection'[j]
          IN /\ r.status = "pending"
             /\ r.output_file_id = NoId
             /\ r.error = NoError
             /\ r.input_file_id \in DOMAIN input_bucket'
             /\ r.cover_image_id # NoId <=> r.has_custom_cover
             /\ r.has_custom_cover => r.cover_image_id \in DOMAIN input_bucket'
             /\ r.cover_image_id # r.input_file_id]_vars

\* An upload with a cover has just been answered: its record is pending and
\* both blobs are stored.
C20_Witness ==
    /\ response.code = 200
    /\ \E j \in DOMAIN processing_collection :
          /\ processing_collection[j].input_file_id = response.file_id
          /\ processing_collection[j].status = "pending"
          /\ processing_collection[j].has_custom_cover
          /\ processing_collection[j].cover_image_id \in DOMAIN input_bucket
          /\ processing_collection[j].input_file_id \in DOMAIN input_bucket

\* ------------------------------------------------- claims on the queries
\* The handler of route has just answered (the answer is for response'.request).
Answered(route) == response'.route = route /\ response' # response

\* The records whose input blob is the one the text file_id names.
JobsOfInput(file_id) ==
    {j \in DOMAIN processing_collection :
        /\ ~InvalidId(file_id)
        /\ ObjectId(file_id).of = "input_images"
        /\ processing_collection[j].input_file_id = ObjectId(file_id).n}

\* C21: check_status(F) answers 404 exactly when no job has input_file_id F;
\* otherwise it answers 200 with the current status of the one job whose
\* input blob is F, pending, completed or failed, and with the job's error
\* message when that status is failed. The id an upload returned names a job
\* for as long as the record exists.
C21_StatusByInputId ==
    /\ [](response.route = "final_image" /\ response.code = 200
            => JobsOfInput(str(ObjectIdOf(response.of, response.file_id))) # {})
    /\ [][(Answered("check_status") /\ ~InvalidId(response'.request)) =>
            LET hits == JobsOfInput(response'.request)
            IN /\ Cardinality(hits) <= 1
               /\ response'.code = 404 <=> hits = {}
               /\ \A j \in hits :
                     /\ response'.code = 200
                     /\ response'.status = job(j).status
                     /\ response'.status \in {"pending", "completed", "failed"}
                     /\ job(j).status = "failed" =>
                           (response'.error = job(j).error /\ response'.error # NoError)
                     /\ job(j).status # "failed" => response'.error = ""]_vars

\* The status of a job uploaded with a cover (its input blob's number is not
\* its record's) was asked for by the id the upload returned, after the job
\* failed: the answer carried the error.
C21_Witness ==
    /\ response.route = "check_status"
    /\ response.code = 200
    /\ response.status = "failed"
    /\ response.error = DecodeMsg
    /\ \E j \in JobsOfInput(response.request) :
          /\ job(j).input_file_id # j
          /\ job(j).has_custom_cover

\* The record the text file_id names by its own _id, if there is one.
JobsOfId(file_id) ==
    {j \in DOMAIN processing_collection :
        /\ ~InvalidId(file_id)
        /\ ObjectId(file_id).of = "image_processing"
        /\ processing_collection[j]._id = ObjectId(file_id).n}

\* C22: check_status called with the _id of a completed processing record
\* answers 200 with status completed and, as file_id, that record's
\* output_file_id.
C22_StatusByRecordId ==
    [][Answered("check_status") =>
          \A j \in JobsOfId(response'.request) :
              job(j).status = "completed" =>
                  /\ response'.code = 200
                  /\ response'.status = "completed"
                  /\ response'.of = "output_images"
                  /\ response'.file_id = job(j).output_file_id]_vars

\* ------------------------------------------------- claims on the upload
\* POST /final_image has just been handled: a blob was stored, or the answer
\* is a new one.
Uploaded == input_bucket' # input_bucket \/ Answered("final_image")

\* The file name has the extension jpg or png, in whatever case.
JpgOrPng(filename) ==
    \/ EndsLike(filename, <<".", "j", "p", "g">>)
    \/ EndsLike(filename, <<".", "p", "n", "g">>)

\* C23: an upload without a faceImage file (none, or one with an empty name),
\* or with a faceImage whose name does not end in .jpg or .png, is answered
\* 400 with an error message, and no record is added to image_processing or
\* changed.
C23_BadUploadRejected ==
    [][(Uploaded /\ ~JpgOrPng(response'.request)) =>
          /\ response'.code = 400
          /\ response'.error # ""
          /\ processing_collection' = processing_collection]_vars

\* An upload named a.jpeg was refused while the store already held a job.
C23_Witness ==
    /\ response.route = "final_image"
    /\ response.request = <<"a", ".", "j", "p", "e", "g">>
    /\ response.code = 400
    /\ response.error = "Invalid image file"
    /\ DOMAIN processing_collection # {}

\* ------------------------------------------- claims on the result's pages
\* The blob of the output bucket the text file_id names, if it is stored.
StoredOutput(file_id) ==
    {i \in 1..Len(output_bucket) :
        /\ ~InvalidId(file_id)
        /\ ObjectId(file_id) = ObjectIdOf("output_images", i)
        /\ output_bucket[i] # Deleted}

\* The records get_image may show for the text file_id: the record with that
\* _id, if it is completed and its output_file_id names a stored blob.
Ready(file_id) ==
    {j \in JobsOfId(file_id) :
        /\ job(j).status = "completed"
        /\ job(j).output_file_id # NoId
        /\ StoredOutput(str(ObjectIdOf("output_images", job(j).output_file_id))) # {}}

\* C24: get_image answers with the result page exactly when the record with
\* the requested _id exists, is completed, has an output_file_id and that blob
\* is in the output bucket, the page then showing that blob; otherwise it
\* answers with the error page and a message. image_data answers with the
\* bytes of the stored output blob that has the requested id, as they were
\* stored, and with 400 and an error when the output bucket has no such blob.
C24_ResultOnlyWhenReady ==
    [][/\ Answered("get_image") =>
            /\ response'.page \in {"result.html", "error.html"}
            /\ response'.page = "result.html" <=> Ready(response'.request) # {}
            /\ response'.page = "error.html" => response'.error # ""
            /\ \A j \in Ready(response'.request) :
                  /\ response'.of = "output_images"
                  /\ response'.file_id = job(j).output_file_id
                  /\ response'.num_faces = job(j).num_faces
       /\ Answered("image_data") =>
            /\ \A i \in StoredOutput(response'.request) :
                  /\ response'.code = 200
                  /\ response'.body = output_bucket[i].bytes
                  /\ response'.error = ""
            /\ StoredOutput(response'.request) = {} =>
                  (response'.code = 400 /\ response'.error # "")]_vars

\* The result page of the second job was rendered, asked for by the record's
\* id, while the first job had failed.
C24_Witness ==
    /\ response.route = "get_image"
    /\ response.page = "result.html"
    /\ response.request = str(ObjectIdOf("image_processing", 2))
    /\ response.file_id = job(2).output_file_id
    /\ job(2).input_file_id # 2
    /\ job(1).status = "failed"

\* ------------------------------------------------- claims on startup
\* Every blob of the two buckets is still stored, as it was, after the step.
BlobsKept ==
    /\ \A id \in DOMAIN input_bucket :
          id \in DOMAIN input_bucket' /\ input_bucket'[id] = input_bucket[id]
    /\ \A i \in 1..Len(output_bucket) :
          i <= Len(output_bucket') /\ output_bucket'[i] = output_bucket[i]

\* C25: no step of the system changes or removes a stored blob: the worker
\* only adds blobs to the output bucket, and the front end's startup leaves
\* the blobs of both buckets in place.
C25_BlobsNeverRemoved == [][BlobsKept]_vars

\* Worker w writes a transition (completed or failed) to job j in this step.
WritesTo(w, j) ==
    /\ pc[w] \in {"update", "except"}
    /\ pc'[w] # pc[w]
    /\ record(w)._id = j

\* Job j's record is modified by the step / removed by the step.
Modified(j) ==
    j \in DOMAIN processing_collection' /\ processing_collection'[j] # job(j)
Removed(j) == j \notin DOMAIN processing_collection'

\* C26 as stated: a job record is modified or removed only by a transition
\* the worker writes to it; the front end's queries and its startup leave
\* every record as it is.
C26_OnlyWorkerChangesJobs ==
    [][\A j \in DOMAIN processing_collection :
          (Modified(j) \/ Removed(j)) => \E w \in Workers : WritesTo(w, j)]_vars

\* C26, amended: a job record is modified only by a transition the worker
\* writes to it; the status query, the result page and the image fetch leave
\* every record as it is; the front end's startup modifies no record and
\* removes all of them, so that after a startup no earlier record is left.
C26_OnlyStartupRemovesJobs ==
    /\ [](flask_app.started > 0 => DOMAIN processing_collection = {})
    /\ [][/\ \A j \in DOMAIN processing_collection :
                /\ Modified(j) => \E w \in Workers : WritesTo(w, j)
                /\ Removed(j) => (/\ flask_app'.started = flask_app.started + 1
                                  /\ DOMAIN processing_collection' = {})
          /\ (Answered("check_status") \/ Answered("get_image")
                \/ Answered("image_data"))
                => processing_collection' = processing_collection
          /\ flask_app' # flask_app => DOMAIN processing_collection' = {}]_vars

\* The front end was started again after the worker had completed a job and
\* failed another: their records are gone, and the status query for the
\* completed job's input blob is answered 404.
C26_Witness ==
    /\ flask_app.started = 1
    /\ DOMAIN processing_collection = {}
    /\ completions[1] = 1
    /\ <<2, DecodeMsg>> \in raised[1]
    /\ response.route = "check_status"
    /\ response.request = str(ObjectIdOf("input_images", 1))
    /\ response.code = 404

\* ------------------------------------------------ claims on the results log
\* Worker w is between the completed transition of job j and store_result.
Storing(w, j) == pc[w] = "store" /\ record(w)._id = j

InWork(w, j) ==
    /\ pending_records[w] # <<>>
    /\ record(w)._id = j
    /\ pc[w] \in {"loop", "upload", "update", "except", "crashed"}

\* C28: the persisted status is always pending, completed or failed; the job
\* a worker has in work is persisted as pending until the worker writes its
\* completed or failed transition, and each write to a job record writes one
\* of these two; so a worker that crashes before that write leaves the job
\* pending, and it stays pending as no one else writes to it.
C28_NoInFlightStatus ==
    /\ [](\A j \in Jobs :
            /\ job(j).status \in {"pending", "completed", "failed"}
            /\ InWork(1, j) => job(j).status = "pending")
    /\ [][\A j \in Jobs :
            /\ job(j).status' # job(j).status =>
                  (/\ job(j).status = "pending"
                   /\ job(j).status' \in {"completed", "failed"}
                   /\ InWork(1, j))
            /\ pc[1] = "crashed" => UNCHANGED processing_collection]_vars

\* The worker crashed after it had uploaded the output of the second job and
\* before it wrote the transition: the job is pending, the first is failed.
C28_Witness ==
    /\ pc[1] = "crashed"
    /\ InWork(1, 2)
    /\ local[1].output_file_id # NoId
    /\ job(2).status = "pending"
    /\ job(1).status = "failed"

\* C29: in every state each completed job has an output_file_id, the output
\* bucket holds a blob with that id, and that blob's metadata input_file_id is
\* the job's input_file_id.
C29_CompletedHasOutput ==
    \A j \in DOMAIN processing_collection :
        job(j).status = "completed" =>
            /\ job(j).output_file_id \in 1..Len(output_bucket)
            /\ output_bucket[job(j).output_file_id] # Deleted
            /\ output_bucket[job(j).output_file_id].input_file_id
                   = job(j).input_file_id

\* Both workers completed job 1, each with its own output blob; the record
\* names the blob of the worker that wrote last.
C29_Witness ==
    /\ completions[1] = 2
    /\ job(1).status = "completed"
    /\ Len(output_bucket) >= 2
    /\ job(1).output_file_id = 2
    /\ output_bucket[1].input_file_id = job(1).input_file_id

\* C30: an upload that is answered 400 adds no record to image_processing
\* and stores no blob in the input bucket.
C30_RejectedUploadStoresNothing ==
    [][(Uploaded /\ response'.code = 400) =>
          /\ processing_collection' = processing_collection
          /\ input_bucket' = input_bucket]_vars


\* ------------------------------------------------ the served image's type
\* Uploads whose names differ in the extension and in its case; one worker
\* with the default redaction processes them and the client fetches the
\* outputs.
ServeFaceImages ==
    {File(<<"a", ".", "j", "p", "g">>, "image"),
     File(<<"a", ".", "J", "P", "G">>, "image"),
     File(<<"a", ".", "p", "n", "g">>, "image"),
     File(<<"a", ".", "P", "N", "G">>, "image")}

NextServe ==
    \/ FinalImage(ServeFaceImages, {NoFile})
    \/ image_data
    \/ Find(1)
    \/ Process(1, FrontOutcomes)
    \/ Upload(1)
    \/ Complete(1)
    \/ StoreResult(1)
    \/ Fail(1)
    \/ Return(1)

SpecServe == InitFront /\ [][NextServe]_vars

\* C31: whenever image_data serves an output blob, the MIME type it answers
\* with (image/jpeg or image/png) is the format the worker encoded the blob's
\* bytes in, for every file name final_image accepts.
C31_MimeMatchesFormat ==
    (response.route = "image_data" /\ response.code = 200)
        => /\ response.mimetype \in {"image/jpeg", "image/png"}
           /\ response.mimetype = "image/jpeg" <=> response.body.format = "jpeg"
           /\ response.mimetype = "image/png" <=> response.body.format = "png"


\* ---------------------------------------------------- the polling worker
\* run() calls process_gridfs_images and sleeps, for ever (lines 390-403):
\* the one worker of the front end's pipeline always takes its next step.
SpecPolling == InitWeb /\ [][NextWeb]_vars /\ WF_vars(Step(1, RaceOutcomes))

Terminal(j) ==
    /\ j \in DOMAIN processing_collection
    /\ processing_collection[j].status \in {"completed", "failed"}

\* C32: with one worker that keeps polling and does not crash, a store that
\* answers and a detector that returns or raises, every job final_image has
\* created is eventually completed or failed.
C32_EveryJobSettles ==
    \A j \in Jobs : (j \in DOMAIN processing_collection) ~> Terminal(j)

\* Every job the client could upload was uploaded, one was completed and one
\* failed.
C32_Witness ==
    /\ DOMAIN processing_collection = Jobs
    /\ \A j \in Jobs : Terminal(j)
    /\ \E j \in Jobs : processing_collection[j].status = "completed"
    /\ \E j \in Jobs : processing_collection[j].status = "failed"


\* ------------------------------------------------- one worker, one result
\* What is said of a job that is completed or failed: the worker's next
\* fetch leaves it out, and neither its record nor its blobs change.
Settled(j) ==
    job(j).status \in {"completed", "failed"}
        => /\ job(j)' = job(j)
           /\ BlobsOf(j)' = BlobsOf(j)
           /\ (pc[1] = "idle" /\ pc'[1] = "loop") => j \notin fetched'[1]

C34_DetectedBoxIsBlack ==
    (Called /\ render.self_method = "rectangle")
        => /\ ~render.result.raises
           /\ \A i \in Counted : \A p \in InBox(render.faces[i]) :
                 render.result.pixels[p] = Black

\* The box with the negative corner was redacted: its last column and row
\* inside the image, 8, are black, as is the corner pixel.
C34_Witness ==
    /\ Called
    /\ render.self_method = "rectangle"
    /\ render.faces = <<BoxFace(-1, -1, 10, 10, 99)>>
    /\ InBox(render.faces[1]) = (0..8) \X (0..8)
    /\ render.result.pixels[<<0, 0>>] = Black
    /\ render.result.pixels[<<8, 8>>] = Black
    /\ render.original[<<8, 8>>] # Black


\* ------------------------------------------------- records without an input
\* Job j's record carries no input_file_id; worker w's cursor is at it.
NoInput(j) == job(j).input_file_id = NoId
AtNoInput(w) ==
    /\ pc[w] = "loop"
    /\ pending_records[w] # <<>>
    /\ record(w).input_file_id = NoId

\* C35: a pending record without input_file_id stays pending for ever, with
\* no output blob, no result record and no completion; the step the worker
\* takes at it changes nothing of the store and moves on to the next record
\* of the cursor; every tick's find() fetches it again; and when a tick's
\* batch is through, every other job it fetched has been completed or failed.
C35_NoInputIsSkipped ==
    /\ [](\A j \in Jobs : NoInput(j) =>
            /\ job(j).status = "pending"
            /\ BlobsOf(j) = {}
            /\ ResultsOf(j) = {}
            /\ completions[j] = 0)
    /\ [][/\ AtNoInput(1) =>
                /\ store' = store
                /\ pc'[1] = "loop"
                /\ pending_records'[1] = Tail(pending_records[1])
                /\ raised' = raised
          /\ (pc[1] = "idle" /\ pc'[1] = "loop") =>
                \A j \in Jobs : NoInput(j) => j \in fetched'[1]
          /\ (pc[1] = "loop" /\ pc'[1] = "idle") =>
                \A j \in fetched[1] :
                    ~NoInput(j) => job(j).status \in {"completed", "failed"}]_vars

\* The second tick has fetched job 1, which has no input_file_id, again and
\* has skipped it; job 2, fetched with it by the first tick, is completed.
C35_Witness ==
    /\ NoInput(1)
    /\ job(1).status = "pending"
    /\ job(2).status = "completed"
    /\ pc[1] = "loop"
    /\ fetched[1] = {1}
    /\ pending_records[1] = <<>>
    /\ Cardinality(BlobsOf(2)) = 1

====
